---- MODULE Spec2Model ----
(***************************************************************************)
(* Session engine of wamp_async: the per-request send helpers of           *)
(* src/core/send.rs (join_realm, leave_realm, subscribe, unsubscribe,      *)
(* publish, register, unregister, invoke_yield, call) acting on the Core   *)
(* state, and the URI validator of src/common.rs.                          *)
(***************************************************************************)
EXTENDS Integers, Sequences, FiniteSets, TLC

\* ------------------------------------------------------------------ bounds

\* Requests the engine takes off its request queue in one run.
MaxOps == 3

\* Router-assigned subscription / registration ids, and invocation request ids.
MaxId == 2

\* CHALLENGE frames the router sends within one join.
MaxChallenges == 2

\* Length of the strings handed to is_valid_strict_uri.
MaxUriLen == 5

Ids == 1 .. MaxId

\* ------------------------------------------------------------------ values

\* Option<T>: None is the empty set, Some(x) the singleton.
None == {}

Some(x) == {x}

\* Option::unwrap on Some(x).
unwrap(o) == CHOOSE x \in o : TRUE

\* HashMap::insert (an existing key is overwritten).
Insert(table, k, v) == [x \in (DOMAIN table) \cup {k} |-> IF x = k THEN v ELSE table[x]]

\* HashMap::remove / HashSet::remove.
RemoveKey(table, k) == [x \in (DOMAIN table) \ {k} |-> table[x]]

EmptyTable == [x \in {} |-> 0]

\* ------------------------------------------------------------------ URI validator

LowerLetters == {"w", "a", "m", "p"}

Digits == {"1"}

UpperLetters == {"A"}

\* The characters the model draws URIs from: lowercase letters (enough to
\* spell the reserved prefix), a digit, the underscore, the dot, an
\* uppercase letter.
Alphabet == LowerLetters \cup Digits \cup UpperLetters \cup {"_", "."}

\* char::is_lowercase
is_lowercase(c) == c \in LowerLetters

\* char::is_alphanumeric
is_alphanumeric(c) == c \in LowerLetters \cup UpperLetters \cup Digits

WampPrefix == <<"w", "a", "m", "p", ".">>

\* str::starts_with
starts_with(s, p) == Len(s) >= Len(p) /\ SubSeq(s, 1, Len(p)) = p

\* The body of the for loop from character i on, num_chars_token being n.
RECURSIVE uri_loop(_, _, _)
uri_loop(uri, i, n) ==
    IF i > Len(uri) THEN TRUE
    ELSE LET c == uri[i]
             n2 == IF c = "." THEN 0 ELSE n + 1
         IN IF c = "." /\ n = 0 THEN FALSE
            ELSE IF c = "_" THEN uri_loop(uri, i + 1, n2)
            ELSE IF ~is_lowercase(c) THEN FALSE
            ELSE IF ~is_alphanumeric(c) THEN FALSE
            ELSE uri_loop(uri, i + 1, n2)

is_valid_strict_uri(uri) ==
    IF starts_with(uri, WampPrefix) THEN FALSE ELSE uri_loop(uri, 1, 0)

Uris == UNION {[1 .. n -> Alphabet] : n \in 0 .. MaxUriLen}

\* ------------------------------------------------------------------ state

VARIABLES
    valid_session,          \* Core::valid_session
    next_request,           \* the request-id counter behind Core::create_request
    pending_requests,       \* Core::pending_requests: ids handed out and not freed
    pending_sub,            \* Core::pending_sub: request id -> continuation
    pending_transactions,   \* Core::pending_transactions: request id -> continuation
    pending_register,       \* Core::pending_register: request id -> (handler, continuation)
    pending_call,           \* Core::pending_call: request id -> continuation
    subscriptions,          \* Core::subscriptions: subscription ids held locally
    rpc_endpoints,          \* Core::rpc_endpoints: registration id -> handler
    wire,                   \* transport log: every send, receive and handler call, in order
    issued,                 \* the Request values taken off the queue, in order
    resolved,               \* resolved[i]: the values sent on the one-shot channel of issued[i]
    status,                 \* Status returned by the last helper; "Panic" after an unwrap of None
    pc,                     \* where the engine task is suspended
    uri,                    \* input of is_valid_strict_uri
    uri_result              \* its result: <<>> before the call, <<b>> after

vars == <<valid_session, next_request, pending_requests, pending_sub, pending_transactions,
          pending_register, pending_call, subscriptions, rpc_endpoints, wire, issued,
          resolved, status, pc, uri, uri_result>>

tables == <<pending_sub, pending_transactions, pending_register, pending_call>>

uri_vars == <<uri, uri_result>>

session_vars == <<valid_session, next_request, pending_requests, pending_sub,
                  pending_transactions, pending_register, pending_call, subscriptions,
                  rpc_endpoints, wire, issued, resolved, status, pc>>

\* ------------------------------------------------------------------ messages

\* A protocol frame: its type, the request id it carries (0 when it carries
\* none), the subscription / registration id (0 when none) and, for YIELD and
\* ERROR, the error URI and the payload.
Frame(type, request, id) ==
    [type |-> type, request |-> request, id |-> id, error |-> "", args |-> None, kwargs |-> None]

Payload(type, request, error, args, kwargs) ==
    [type |-> type, request |-> request, id |-> 0, error |-> error, args |-> args, kwargs |-> kwargs]

\* A transport log entry: req is the index in issued of the request whose
\* helper performed it.
\* core.send(&msg): the frame is handed to the transport; ok is the outcome.
Sent(msg, ok, req) == Append(wire, [dir |-> "out", ok |-> ok, msg |-> msg, req |-> req])

\* core.recv(): ok with a frame of the given type, or a transport error.
Received(type, ok, req) ==
    Append(wire, [dir |-> "in", ok |-> ok, msg |-> Frame(type, 0, 0), req |-> req])

\* A call of the user-supplied challenge handler, after the log w.
HandlerCalled(w, req) ==
    Append(w, [dir |-> "handler", ok |-> TRUE, msg |-> Frame("on_challenge_handler", 0, 0),
               req |-> req])

\* The result carried by a Request::InvocationResult (none for the other requests).
NoResult == [variant |-> "none", uri |-> "", args |-> None, kwargs |-> None, text |-> ""]

\* A Request: the operation, the subscription / registration / invocation id
\* it names, the handler it carries and the invocation result it carries.
Req(kind, id, handler, result) == [kind |-> kind, id |-> id, handler |-> handler, result |-> result]

\* Values delivered on the one-shot channels.
OkValue == "Ok"

TransportError == "Err(transport)"

CallerError == "Err(unknown id)"

NoHandlerError == "Err(no challenge handler)"

HandlerError == "Err(challenge handler failed)"

UnexpectedFrame == "Err(server did not respond with WELCOME)"

RpcHandlers == {"f", "g"}

\* A frame other than WELCOME and CHALLENGE that the router may send during a join.
OtherFrames == {"ABORT"}

\* ------------------------------------------------------------------ Core

\* Mutant of create_request: the smallest id that is not pending is handed
\* out, so an id that was freed or rolled back is handed out again.
create_request_reuse ==
    LET free == CHOOSE n \in 1 .. (Cardinality(pending_requests) + 1) :
                    /\ n \notin pending_requests
                    /\ \A m \in 1 .. (n - 1) : m \in pending_requests
    IN [request |-> free,
        pending |-> pending_requests \cup {free},
        next |-> next_request + 1]

\* Core::create_request: the next id of the counter, recorded as pending.
create_request ==
    [request |-> next_request,
     pending |-> pending_requests \cup {next_request},
     next |-> next_request + 1]

\* The engine loop takes the next request only while the last helper
\* returned Status::Ok and no helper is suspended.
Accepting == status = "Ok" /\ pc = "idle" /\ Len(issued) < MaxOps

\* Index of the continuation of the request being taken.
NewRes == Len(issued) + 1

\* The request whose helper is suspended (the last one taken).
Current == Len(issued)

InitSession ==
    /\ valid_session = FALSE
    /\ next_request = 1
    /\ pending_requests = {}
    /\ pending_sub = EmptyTable
    /\ pending_transactions = EmptyTable
    /\ pending_register = EmptyTable
    /\ pending_call = EmptyTable
    /\ subscriptions = {}
    /\ rpc_endpoints = EmptyTable
    /\ wire = <<>>
    /\ issued = <<>>
    /\ resolved = <<>>
    /\ status = "Ok"
    /\ pc = "idle"

\* ------------------------------------------------------------------ join / leave

\* join_realm up to its first receive: HELLO is sent; a failed send resolves
\* the caller with the transport error and ends the engine.
join_realm_hello(handler, ok) ==
    /\ Accepting
    /\ issued' = Append(issued, Req("join", 0, handler, NoResult))
    /\ wire' = Sent(Frame("HELLO", 0, 0), ok, NewRes)
    /\ IF ~ok
       THEN /\ resolved' = Append(resolved, <<TransportError>>)
            /\ status' = "Shutdown"
            /\ pc' = "idle"
       ELSE /\ resolved' = Append(resolved, <<>>)
            /\ status' = "Ok"
            /\ pc' = "join_recv"
    /\ UNCHANGED <<valid_session, next_request, pending_requests, tables, subscriptions,
                   rpc_endpoints, uri_vars>>

\* Position in wire of the HELLO of the join in progress.
HelloAt == CHOOSE i \in 1 .. Len(wire) :
              /\ wire[i].msg.type = "HELLO"
              /\ \A j \in (i + 1) .. Len(wire) : wire[j].msg.type # "HELLO"

ChallengesThisJoin ==
    Cardinality({i \in HelloAt .. Len(wire) : wire[i].dir = "in" /\ wire[i].msg.type = "CHALLENGE"})

\* core.recv() fails inside the loop.
join_realm_recv_error ==
    /\ status = "Ok" /\ pc = "join_recv"
    /\ wire' = Received("", FALSE, Current)
    /\ resolved' = [resolved EXCEPT ![Current] = Append(@, TransportError)]
    /\ status' = "Shutdown"
    /\ pc' = "idle"
    /\ UNCHANGED <<valid_session, next_request, pending_requests, tables, subscriptions,
                   rpc_endpoints, issued, uri_vars>>

\* Msg::Welcome: the loop ends, the session is marked valid, the caller gets Ok.
join_realm_welcome ==
    /\ status = "Ok" /\ pc = "join_recv"
    /\ wire' = Received("WELCOME", TRUE, Current)
    /\ valid_session' = TRUE
    /\ resolved' = [resolved EXCEPT ![Current] = Append(@, OkValue)]
    /\ status' = "Ok"
    /\ pc' = "idle"
    /\ UNCHANGED <<next_request, pending_requests, tables, subscriptions, rpc_endpoints,
                   issued, uri_vars>>

\* Mutant of join_realm_challenge: the handler is called and AUTHENTICATE is
\* sent whether or not a handler was configured.
join_realm_challenge_unchecked(handler_ok, ok) ==
    /\ status = "Ok" /\ pc = "join_recv"
    /\ ChallengesThisJoin < MaxChallenges
    /\ IF handler_ok
       THEN /\ wire' = Append(HandlerCalled(Received("CHALLENGE", TRUE, Current), Current),
                              [dir |-> "out", ok |-> ok,
                               msg |-> Frame("AUTHENTICATE", 0, 0), req |-> Current])
            /\ IF ~ok
               THEN /\ resolved' = [resolved EXCEPT ![Current] = Append(@, TransportError)]
                    /\ status' = "Shutdown"
                    /\ pc' = "idle"
               ELSE /\ resolved' = resolved
                    /\ status' = "Ok"
                    /\ pc' = "join_recv"
       ELSE /\ wire' = HandlerCalled(Received("CHALLENGE", TRUE, Current), Current)
            /\ resolved' = [resolved EXCEPT ![Current] = Append(@, HandlerError)]
            /\ status' = "Shutdown"
            /\ pc' = "idle"
    /\ UNCHANGED <<valid_session, next_request, pending_requests, tables, subscriptions,
                   rpc_endpoints, issued, uri_vars>>

\* Msg::Challenge: with a handler, the handler is awaited and AUTHENTICATE is
\* sent with its answer, and the loop goes on; a failing handler, a failing
\* send or a missing handler resolves the caller with the error.
join_realm_challenge(handler_ok, ok) ==
    /\ status = "Ok" /\ pc = "join_recv"
    /\ ChallengesThisJoin < MaxChallenges
    /\ IF issued[Current].handler # "none"
       THEN IF handler_ok
            THEN /\ wire' = Append(HandlerCalled(Received("CHALLENGE", TRUE, Current), Current),
                                   [dir |-> "out", ok |-> ok,
                                    msg |-> Frame("AUTHENTICATE", 0, 0), req |-> Current])
                 /\ IF ~ok
                    THEN /\ resolved' = [resolved EXCEPT ![Current] = Append(@, TransportError)]
                         /\ status' = "Shutdown"
                         /\ pc' = "idle"
                    ELSE /\ resolved' = resolved
                         /\ status' = "Ok"
                         /\ pc' = "join_recv"
            ELSE /\ wire' = HandlerCalled(Received("CHALLENGE", TRUE, Current), Current)
                 /\ resolved' = [resolved EXCEPT ![Current] = Append(@, HandlerError)]
                 /\ status' = "Shutdown"
                 /\ pc' = "idle"
       ELSE /\ wire' = Received("CHALLENGE", TRUE, Current)
            /\ resolved' = [resolved EXCEPT ![Current] = Append(@, NoHandlerError)]
            /\ status' = "Shutdown"
            /\ pc' = "idle"
    /\ UNCHANGED <<valid_session, next_request, pending_requests, tables, subscriptions,
                   rpc_endpoints, issued, uri_vars>>

\* Mutant of join_realm_other: the frame is skipped and the loop goes on.
join_realm_other_ignored(type) ==
    /\ status = "Ok" /\ pc = "join_recv"
    /\ wire' = Received(type, TRUE, Current)
    /\ UNCHANGED <<valid_session, next_request, pending_requests, tables, subscriptions,
                   rpc_endpoints, issued, resolved, status, pc, uri_vars>>

\* Any other frame: the caller gets an error and the engine ends.
join_realm_other(type) ==
    /\ status = "Ok" /\ pc = "join_recv"
    /\ wire' = Received(type, TRUE, Current)
    /\ resolved' = [resolved EXCEPT ![Current] = Append(@, UnexpectedFrame)]
    /\ status' = "Shutdown"
    /\ pc' = "idle"
    /\ UNCHANGED <<valid_session, next_request, pending_requests, tables, subscriptions,
                   rpc_endpoints, issued, uri_vars>>

\* Mutant of leave_realm_begin: the session is not marked invalid.
leave_realm_begin_keeps_valid ==
    /\ Accepting
    /\ issued' = Append(issued, Req("leave", 0, "none", NoResult))
    /\ resolved' = Append(resolved, <<>>)
    /\ pc' = "leave_send"
    /\ UNCHANGED <<valid_session, next_request, pending_requests, tables, subscriptions,
                   rpc_endpoints, wire, status, uri_vars>>

\* leave_realm up to the send of GOODBYE: the session is marked invalid.
leave_realm_begin ==
    /\ Accepting
    /\ issued' = Append(issued, Req("leave", 0, "none", NoResult))
    /\ resolved' = Append(resolved, <<>>)
    /\ valid_session' = FALSE
    /\ pc' = "leave_send"
    /\ UNCHANGED <<next_request, pending_requests, tables, subscriptions, rpc_endpoints,
                   wire, status, uri_vars>>

\* Mutant of leave_realm_goodbye: after a successful send the helper receives
\* the peer's GOODBYE before it answers the caller.
leave_realm_goodbye_waits(ok) ==
    /\ status = "Ok" /\ pc = "leave_send"
    /\ IF ~ok
       THEN /\ wire' = Sent(Frame("GOODBYE", 0, 0), ok, Current)
            /\ resolved' = [resolved EXCEPT ![Current] = Append(@, TransportError)]
            /\ status' = "Shutdown"
       ELSE /\ wire' = Append(Sent(Frame("GOODBYE", 0, 0), ok, Current),
                              [dir |-> "in", ok |-> TRUE, msg |-> Frame("GOODBYE", 0, 0),
                               req |-> Current])
            /\ resolved' = [resolved EXCEPT ![Current] = Append(@, OkValue)]
            /\ status' = "Ok"
    /\ pc' = "idle"
    /\ UNCHANGED <<valid_session, next_request, pending_requests, tables, subscriptions,
                   rpc_endpoints, issued, uri_vars>>

\* leave_realm from the send of GOODBYE on.
leave_realm_goodbye(ok) ==
    /\ status = "Ok" /\ pc = "leave_send"
    /\ wire' = Sent(Frame("GOODBYE", 0, 0), ok, Current)
    /\ IF ~ok
       THEN /\ resolved' = [resolved EXCEPT ![Current] = Append(@, TransportError)]
            /\ status' = "Shutdown"
       ELSE /\ resolved' = [resolved EXCEPT ![Current] = Append(@, OkValue)]
            /\ status' = "Ok"
    /\ pc' = "idle"
    /\ UNCHANGED <<valid_session, next_request, pending_requests, tables, subscriptions,
                   rpc_endpoints, issued, uri_vars>>

\* ------------------------------------------------------------------ pub/sub

\* subscribe: on a failed send the allocation is rolled back and the
\* continuation is dropped without a value (the res.send is commented out).
subscribe(ok) ==
    /\ Accepting
    /\ LET request == create_request.request
       IN /\ issued' = Append(issued, Req("subscribe", 0, "none", NoResult))
          /\ next_request' = create_request.next
          /\ wire' = Sent(Frame("SUBSCRIBE", request, 0), ok, NewRes)
          /\ resolved' = Append(resolved, <<>>)
          /\ IF ~ok
             THEN /\ pending_requests' = create_request.pending \ {request}
                  /\ pending_sub' = pending_sub
                  /\ status' = "Shutdown"
             ELSE /\ pending_requests' = create_request.pending
                  /\ pending_sub' = Insert(pending_sub, request, NewRes)
                  /\ status' = "Ok"
    /\ UNCHANGED <<valid_session, pending_transactions, pending_register, pending_call,
                   subscriptions, rpc_endpoints, pc, uri_vars>>

\* Mutant of unsubscribe: the local check is skipped, UNSUBSCRIBE is always sent.
unsubscribe_unchecked(sub_id, ok) ==
    /\ Accepting
    /\ issued' = Append(issued, Req("unsubscribe", sub_id, "none", NoResult))
    /\ LET request == create_request.request
       IN /\ subscriptions' = subscriptions \ {sub_id}
          /\ next_request' = create_request.next
          /\ wire' = Sent(Frame("UNSUBSCRIBE", request, sub_id), ok, NewRes)
          /\ IF ~ok
             THEN /\ pending_requests' = create_request.pending \ {request}
                  /\ resolved' = Append(resolved, <<TransportError>>)
                  /\ pending_transactions' = pending_transactions
                  /\ status' = "Shutdown"
             ELSE /\ pending_requests' = create_request.pending
                  /\ resolved' = Append(resolved, <<>>)
                  /\ pending_transactions' = Insert(pending_transactions, request, NewRes)
                  /\ status' = "Ok"
    /\ UNCHANGED <<valid_session, pending_sub, pending_register, pending_call,
                   rpc_endpoints, pc, uri_vars>>

\* Mutant of unsubscribe: the request id is allocated before the local check.
unsubscribe_allocates_first(sub_id, ok) ==
    /\ Accepting
    /\ issued' = Append(issued, Req("unsubscribe", sub_id, "none", NoResult))
    /\ IF sub_id \notin subscriptions
       THEN /\ resolved' = Append(resolved, <<CallerError>>)
            /\ status' = "Ok"
            /\ next_request' = create_request.next
            /\ pending_requests' = create_request.pending
            /\ UNCHANGED <<subscriptions, wire, pending_transactions>>
       ELSE LET request == create_request.request
            IN /\ subscriptions' = subscriptions \ {sub_id}
               /\ next_request' = create_request.next
               /\ wire' = Sent(Frame("UNSUBSCRIBE", request, sub_id), ok, NewRes)
               /\ IF ~ok
                  THEN /\ pending_requests' = create_request.pending \ {request}
                       /\ resolved' = Append(resolved, <<TransportError>>)
                       /\ pending_transactions' = pending_transactions
                       /\ status' = "Shutdown"
                  ELSE /\ pending_requests' = create_request.pending
                       /\ resolved' = Append(resolved, <<>>)
                       /\ pending_transactions' = Insert(pending_transactions, request, NewRes)
                       /\ status' = "Ok"
    /\ UNCHANGED <<valid_session, pending_sub, pending_register, pending_call,
                   rpc_endpoints, pc, uri_vars>>

unsubscribe(sub_id, ok) ==
    /\ Accepting
    /\ issued' = Append(issued, Req("unsubscribe", sub_id, "none", NoResult))
    /\ IF sub_id \notin subscriptions
       THEN /\ resolved' = Append(resolved, <<CallerError>>)
            /\ status' = "Ok"
            /\ UNCHANGED <<subscriptions, next_request, wire, pending_requests,
                           pending_transactions>>
       ELSE LET request == create_request.request
            IN /\ subscriptions' = subscriptions \ {sub_id}
               /\ next_request' = create_request.next
               /\ wire' = Sent(Frame("UNSUBSCRIBE", request, sub_id), ok, NewRes)
               /\ IF ~ok
                  THEN /\ pending_requests' = create_request.pending \ {request}
                       /\ resolved' = Append(resolved, <<TransportError>>)
                       /\ pending_transactions' = pending_transactions
                       /\ status' = "Shutdown"
                  ELSE /\ pending_requests' = create_request.pending
                       /\ resolved' = Append(resolved, <<>>)
                       /\ pending_transactions' = Insert(pending_transactions, request, NewRes)
                       /\ status' = "Ok"
    /\ UNCHANGED <<valid_session, pending_sub, pending_register, pending_call,
                   rpc_endpoints, pc, uri_vars>>

\* Mutant of publish: the continuation is parked under an id that is not kept
\* in the pending-id set.
publish_unrecorded(ok) ==
    /\ Accepting
    /\ LET request == create_request.request
       IN /\ issued' = Append(issued, Req("publish", 0, "none", NoResult))
          /\ next_request' = create_request.next
          /\ wire' = Sent(Frame("PUBLISH", request, 0), ok, NewRes)
          /\ IF ~ok
             THEN /\ pending_requests' = create_request.pending \ {request}
                  /\ resolved' = Append(resolved, <<TransportError>>)
                  /\ pending_transactions' = pending_transactions
                  /\ status' = "Shutdown"
             ELSE /\ pending_requests' = pending_requests
                  /\ resolved' = Append(resolved, <<>>)
                  /\ pending_transactions' = Insert(pending_transactions, request, NewRes)
                  /\ status' = "Ok"
    /\ UNCHANGED <<valid_session, pending_sub, pending_register, pending_call,
                   subscriptions, rpc_endpoints, pc, uri_vars>>

publish(ok) ==
    /\ Accepting
    /\ LET request == create_request.request
       IN /\ issued' = Append(issued, Req("publish", 0, "none", NoResult))
          /\ next_request' = create_request.next
          /\ wire' = Sent(Frame("PUBLISH", request, 0), ok, NewRes)
          /\ IF ~ok
             THEN /\ pending_requests' = create_request.pending \ {request}
                  /\ resolved' = Append(resolved, <<TransportError>>)
                  /\ pending_transactions' = pending_transactions
                  /\ status' = "Shutdown"
             ELSE /\ pending_requests' = create_request.pending
                  /\ resolved' = Append(resolved, <<>>)
                  /\ pending_transactions' = Insert(pending_transactions, request, NewRes)
                  /\ status' = "Ok"
    /\ UNCHANGED <<valid_session, pending_sub, pending_register, pending_call,
                   subscriptions, rpc_endpoints, pc, uri_vars>>

\* ------------------------------------------------------------------ RPC

\* Mutant of register: a failed send leaves the allocated id in pending_requests.
register_no_rollback(func_ptr, ok) ==
    /\ Accepting
    /\ LET request == create_request.request
       IN /\ issued' = Append(issued, Req("register", 0, func_ptr, NoResult))
          /\ next_request' = create_request.next
          /\ wire' = Sent(Frame("REGISTER", request, 0), ok, NewRes)
          /\ pending_requests' = create_request.pending
          /\ IF ~ok
             THEN /\ resolved' = Append(resolved, <<TransportError>>)
                  /\ pending_register' = pending_register
                  /\ status' = "Shutdown"
             ELSE /\ resolved' = Append(resolved, <<>>)
                  /\ pending_register' =
                         Insert(pending_register, request, [func |-> func_ptr, res |-> NewRes])
                  /\ status' = "Ok"
    /\ UNCHANGED <<valid_session, pending_sub, pending_transactions, pending_call,
                   subscriptions, rpc_endpoints, pc, uri_vars>>

\* Mutant of register: a successful send makes the handler invocable at once.
register_direct(func_ptr, ok) ==
    /\ Accepting
    /\ LET request == create_request.request
       IN /\ issued' = Append(issued, Req("register", 0, func_ptr, NoResult))
          /\ next_request' = create_request.next
          /\ wire' = Sent(Frame("REGISTER", request, 0), ok, NewRes)
          /\ IF ~ok
             THEN /\ pending_requests' = create_request.pending \ {request}
                  /\ resolved' = Append(resolved, <<TransportError>>)
                  /\ pending_register' = pending_register
                  /\ status' = "Shutdown"
             ELSE /\ pending_requests' = create_request.pending
                  /\ resolved' = Append(resolved, <<>>)
                  /\ pending_register' =
                         Insert(pending_register, request, [func |-> func_ptr, res |-> NewRes])
                  /\ status' = "Ok"
    /\ rpc_endpoints' = IF ok THEN Insert(rpc_endpoints, create_request.request, func_ptr)
                              ELSE rpc_endpoints
    /\ UNCHANGED <<valid_session, pending_sub, pending_transactions, pending_call,
                   subscriptions, pc, uri_vars>>

register(func_ptr, ok) ==
    /\ Accepting
    /\ LET request == create_request.request
       IN /\ issued' = Append(issued, Req("register", 0, func_ptr, NoResult))
          /\ next_request' = create_request.next
          /\ wire' = Sent(Frame("REGISTER", request, 0), ok, NewRes)
          /\ IF ~ok
             THEN /\ pending_requests' = create_request.pending \ {request}
                  /\ resolved' = Append(resolved, <<TransportError>>)
                  /\ pending_register' = pending_register
                  /\ status' = "Shutdown"
             ELSE /\ pending_requests' = create_request.pending
                  /\ resolved' = Append(resolved, <<>>)
                  /\ pending_register' =
                         Insert(pending_register, request, [func |-> func_ptr, res |-> NewRes])
                  /\ status' = "Ok"
    /\ UNCHANGED <<valid_session, pending_sub, pending_transactions, pending_call,
                   subscriptions, rpc_endpoints, pc, uri_vars>>

\* Mutant of unregister: the local entry is kept until the router acknowledges.
unregister_lazy(rpc_id, ok) ==
    /\ Accepting
    /\ issued' = Append(issued, Req("unregister", rpc_id, "none", NoResult))
    /\ IF rpc_id \notin DOMAIN rpc_endpoints
       THEN /\ resolved' = Append(resolved, <<CallerError>>)
            /\ status' = "Ok"
            /\ UNCHANGED <<rpc_endpoints, next_request, wire, pending_requests,
                           pending_transactions>>
       ELSE LET request == create_request.request
            IN /\ rpc_endpoints' = rpc_endpoints
               /\ next_request' = create_request.next
               /\ wire' = Sent(Frame("UNREGISTER", request, rpc_id), ok, NewRes)
               /\ IF ~ok
                  THEN /\ pending_requests' = create_request.pending \ {request}
                       /\ resolved' = Append(resolved, <<TransportError>>)
                       /\ pending_transactions' = pending_transactions
                       /\ status' = "Shutdown"
                  ELSE /\ pending_requests' = create_request.pending
                       /\ resolved' = Append(resolved, <<>>)
                       /\ pending_transactions' = Insert(pending_transactions, request, NewRes)
                       /\ status' = "Ok"
    /\ UNCHANGED <<valid_session, pending_sub, pending_register, pending_call,
                   subscriptions, pc, uri_vars>>

unregister(rpc_id, ok) ==
    /\ Accepting
    /\ issued' = Append(issued, Req("unregister", rpc_id, "none", NoResult))
    /\ IF rpc_id \notin DOMAIN rpc_endpoints
       THEN /\ resolved' = Append(resolved, <<CallerError>>)
            /\ status' = "Ok"
            /\ UNCHANGED <<rpc_endpoints, next_request, wire, pending_requests,
                           pending_transactions>>
       ELSE LET request == create_request.request
            IN /\ rpc_endpoints' = RemoveKey(rpc_endpoints, rpc_id)
               /\ next_request' = create_request.next
               /\ wire' = Sent(Frame("UNREGISTER", request, rpc_id), ok, NewRes)
               /\ IF ~ok
                  THEN /\ pending_requests' = create_request.pending \ {request}
                       /\ resolved' = Append(resolved, <<TransportError>>)
                       /\ pending_transactions' = pending_transactions
                       /\ status' = "Shutdown"
                  ELSE /\ pending_requests' = create_request.pending
                       /\ resolved' = Append(resolved, <<>>)
                       /\ pending_transactions' = Insert(pending_transactions, request, NewRes)
                       /\ status' = "Ok"
    /\ UNCHANGED <<valid_session, pending_sub, pending_register, pending_call,
                   subscriptions, pc, uri_vars>>

\* Mutant of call: the continuation is parked in the generic table.
call_cross_wired(ok) ==
    /\ Accepting
    /\ LET request == create_request.request
       IN /\ issued' = Append(issued, Req("call", 0, "none", NoResult))
          /\ next_request' = create_request.next
          /\ wire' = Sent(Frame("CALL", request, 0), ok, NewRes)
          /\ IF ~ok
             THEN /\ pending_requests' = create_request.pending \ {request}
                  /\ resolved' = Append(resolved, <<TransportError>>)
                  /\ pending_transactions' = pending_transactions
                  /\ status' = "Shutdown"
             ELSE /\ pending_requests' = create_request.pending
                  /\ resolved' = Append(resolved, <<>>)
                  /\ pending_transactions' = Insert(pending_transactions, request, NewRes)
                  /\ status' = "Ok"
    /\ UNCHANGED <<valid_session, pending_sub, pending_call, pending_register,
                   subscriptions, rpc_endpoints, pc, uri_vars>>

call(ok) ==
    /\ Accepting
    /\ LET request == create_request.request
       IN /\ issued' = Append(issued, Req("call", 0, "none", NoResult))
          /\ next_request' = create_request.next
          /\ wire' = Sent(Frame("CALL", request, 0), ok, NewRes)
          /\ IF ~ok
             THEN /\ pending_requests' = create_request.pending \ {request}
                  /\ resolved' = Append(resolved, <<TransportError>>)
                  /\ pending_call' = pending_call
                  /\ status' = "Shutdown"
             ELSE /\ pending_requests' = create_request.pending
                  /\ resolved' = Append(resolved, <<>>)
                  /\ pending_call' = Insert(pending_call, request, NewRes)
                  /\ status' = "Ok"
    /\ UNCHANGED <<valid_session, pending_sub, pending_transactions, pending_register,
                   subscriptions, rpc_endpoints, pc, uri_vars>>

\* ------------------------------------------------------------------ invocation results

GenericErrorUri == "wamp.async.rs.rpc.failed"

\* Payload values are tuples of strings.
V42 == <<"42">>

Vx == <<"x">>

\* format!("{:?}", e): the textual description of an error, as a payload value.
Debug(e) == <<"Debug", e.variant, e.text>>

OkResult(args, kwargs) ==
    [variant |-> "Ok", uri |-> "", args |-> args, kwargs |-> kwargs, text |-> ""]

\* WampError::ApplicationError(uri, detail); args and kwargs are what
\* detail.get_args() and detail.get_kwargs() return.
ApplicationError(error_uri, args, kwargs) ==
    [variant |-> "ApplicationError", uri |-> error_uri, args |-> args, kwargs |-> kwargs, text |-> ""]

\* Any other WampError.
UnknownError(text) ==
    [variant |-> "UnknownError", uri |-> "", args |-> None, kwargs |-> None, text |-> text]

\* The results a handler may hand back.
InvocationResults ==
    { OkResult(Some(<<V42>>), Some({})),
      OkResult(None, None),
      ApplicationError("app.bad", Some(<<Vx>>), Some({<<"k", Vx>>})),
      ApplicationError("app.bad", Some(<<Vx>>), None),
      ApplicationError("app.bad", None, Some({})),
      UnknownError("boom") }

\* The invocation result drawn where the session, not the payload, is under
\* study (SpecInvoke draws them all).
SessionResults == {OkResult(None, None)}

\* The unwrap of d.get_args() or of d.get_kwargs() hits None.
invoke_yield_panics(res) ==
    res.variant = "ApplicationError" /\ (res.args = None \/ res.kwargs = None)

\* The frame invoke_yield builds.
invoke_yield_msg(request, res) ==
    IF res.variant = "Ok"
    THEN Payload("YIELD", request, "", res.args, res.kwargs)
    ELSE LET error_uri == IF res.variant = "ApplicationError" THEN res.uri ELSE GenericErrorUri
             arguments == IF res.variant = "ApplicationError"
                          THEN unwrap(res.args) ELSE <<Debug(res)>>
             kwargs == IF res.variant = "ApplicationError" THEN unwrap(res.kwargs) ELSE {}
         IN Payload("ERROR", request, error_uri, Some(arguments), Some(kwargs))

invoke_yield(request, res, ok) ==
    /\ Accepting
    /\ issued' = Append(issued, Req("invocation_result", request, "none", res))
    /\ resolved' = Append(resolved, <<>>)
    /\ IF invoke_yield_panics(res)
       THEN /\ wire' = wire
            /\ status' = "Panic"
       ELSE /\ wire' = Sent(invoke_yield_msg(request, res), ok, NewRes)
            /\ status' = IF ok THEN "Ok" ELSE "Shutdown"
    /\ UNCHANGED <<valid_session, next_request, pending_requests, tables, subscriptions,
                   rpc_endpoints, pc, uri_vars>>

\* ------------------------------------------------------------------ inbound dispatch

\* SUBSCRIBED for a parked subscribe: the continuation gets the subscription
\* id and the id enters the subscription table.
recv_subscribed(request, sub_id) ==
    /\ status = "Ok" /\ pc = "idle"
    /\ request \in DOMAIN pending_sub
    /\ resolved' = [resolved EXCEPT ![pending_sub[request]] = Append(@, OkValue)]
    /\ pending_sub' = RemoveKey(pending_sub, request)
    /\ pending_requests' = pending_requests \ {request}
    /\ subscriptions' = subscriptions \cup {sub_id}
    /\ UNCHANGED <<valid_session, next_request, pending_transactions, pending_register,
                   pending_call, rpc_endpoints, wire, issued, status, pc, uri_vars>>

\* REGISTERED for a parked register: the handler moves into the registration
\* table under the router's id.
recv_registered(request, rpc_id) ==
    /\ status = "Ok" /\ pc = "idle"
    /\ request \in DOMAIN pending_register
    /\ resolved' = [resolved EXCEPT ![pending_register[request].res] = Append(@, OkValue)]
    /\ rpc_endpoints' = Insert(rpc_endpoints, rpc_id, pending_register[request].func)
    /\ pending_register' = RemoveKey(pending_register, request)
    /\ pending_requests' = pending_requests \ {request}
    /\ UNCHANGED <<valid_session, next_request, pending_sub, pending_transactions,
                   pending_call, subscriptions, wire, issued, status, pc, uri_vars>>

\* UNSUBSCRIBED / PUBLISHED / UNREGISTERED for a parked generic transaction.
recv_ack(request) ==
    /\ status = "Ok" /\ pc = "idle"
    /\ request \in DOMAIN pending_transactions
    /\ resolved' = [resolved EXCEPT ![pending_transactions[request]] = Append(@, OkValue)]
    /\ pending_transactions' = RemoveKey(pending_transactions, request)
    /\ pending_requests' = pending_requests \ {request}
    /\ UNCHANGED <<valid_session, next_request, pending_sub, pending_register, pending_call,
                   subscriptions, rpc_endpoints, wire, issued, status, pc, uri_vars>>

\* RESULT for a parked call.
recv_result(request) ==
    /\ status = "Ok" /\ pc = "idle"
    /\ request \in DOMAIN pending_call
    /\ resolved' = [resolved EXCEPT ![pending_call[request]] = Append(@, OkValue)]
    /\ pending_call' = RemoveKey(pending_call, request)
    /\ pending_requests' = pending_requests \ {request}
    /\ UNCHANGED <<valid_session, next_request, pending_sub, pending_transactions,
                   pending_register, subscriptions, rpc_endpoints, wire, issued, status, pc,
                   uri_vars>>

\* ------------------------------------------------------------------ specifications

Init ==
    /\ InitSession
    /\ uri = <<>>
    /\ uri_result = <<>>

Next ==
    \/ \E handler \in {"none", "on_challenge"}, ok \in BOOLEAN : join_realm_hello(handler, ok)
    \/ join_realm_recv_error
    \/ join_realm_welcome
    \/ \E handler_ok \in BOOLEAN, ok \in BOOLEAN : join_realm_challenge(handler_ok, ok)
    \/ \E type \in OtherFrames : join_realm_other(type)
    \/ leave_realm_begin
    \/ \E ok \in BOOLEAN : leave_realm_goodbye(ok)
    \/ \E ok \in BOOLEAN : subscribe(ok)
    \/ \E sub_id \in Ids, ok \in BOOLEAN : unsubscribe(sub_id, ok)
    \/ \E ok \in BOOLEAN : publish(ok)
    \/ \E func_ptr \in RpcHandlers, ok \in BOOLEAN : register(func_ptr, ok)
    \/ \E rpc_id \in Ids, ok \in BOOLEAN : unregister(rpc_id, ok)
    \/ \E ok \in BOOLEAN : call(ok)
    \/ \E res \in SessionResults, ok \in BOOLEAN : invoke_yield(1, res, ok)
    \/ \E request \in DOMAIN pending_sub, sub_id \in Ids : recv_subscribed(request, sub_id)
    \/ \E request \in DOMAIN pending_register, rpc_id \in Ids : recv_registered(request, rpc_id)
    \/ \E request \in DOMAIN pending_transactions : recv_ack(request)
    \/ \E request \in DOMAIN pending_call : recv_result(request)

Spec == Init /\ [][Next]_vars

\* The engine handed a sequence of invocation results of every shape.
NextInvoke ==
    \E request \in Ids, res \in InvocationResults, ok \in BOOLEAN : invoke_yield(request, res, ok)

SpecInvoke == Init /\ [][NextInvoke]_vars

\* The URI validator applied to every string over Alphabet up to MaxUriLen.
InitUri ==
    /\ InitSession
    /\ uri \in Uris
    /\ uri_result = <<>>

validate ==
    /\ uri_result = <<>>
    /\ uri_result' = <<is_valid_strict_uri(uri)>>
    /\ UNCHANGED <<uri, session_vars>>

NextUri == validate

SpecUri == InitUri /\ [][NextUri]_vars

\* ------------------------------------------------------------------ URI claims

\* The dot-delimited tokens of s (str::split('.')): the empty string has one
\* token, of zero length.
RECURSIVE Split(_)
Split(s) ==
    IF \A i \in 1 .. Len(s) : s[i] # "."
    THEN <<s>>
    ELSE LET d == CHOOSE i \in 1 .. Len(s) : s[i] = "." /\ \A j \in 1 .. (i - 1) : s[j] # "."
         IN <<SubSeq(s, 1, d - 1)>> \o Split(SubSeq(s, d + 1, Len(s)))

HasEmptyToken(s) == \E k \in 1 .. Len(Split(s)) : Split(s)[k] = <<>>

HasBadChar(s) == \E i \in 1 .. Len(s) : s[i] \notin LowerLetters \cup Digits \cup {"_", "."}

\* One or more non-empty tokens of lowercase letters, digits and underscores
\* separated by single dots, not beginning with "wamp.".
WellFormed(s) == ~starts_with(s, WampPrefix) /\ ~HasBadChar(s) /\ ~HasEmptyToken(s)

Malformed(s) == starts_with(s, WampPrefix) \/ HasBadChar(s) \/ HasEmptyToken(s)

\* C9: is_valid_strict_uri returns true for every well-formed URI.
C9_AcceptsWellFormed == (uri_result # <<>> /\ WellFormed(uri)) => uri_result = <<TRUE>>

\* C10: is_valid_strict_uri returns false for every URI that begins with
\* "wamp.", contains a character other than a lowercase letter, digit,
\* underscore or dot, or contains a zero-length dot-delimited token.
C10_RejectsMalformed == (uri_result # <<>> /\ Malformed(uri)) => uri_result = <<FALSE>>

\* ------------------------------------------------------------------ invocation claims

\* The frame the result mapping asks for: YIELD with the handler's results;
\* ERROR with the application error's own URI and detail payload; otherwise
\* ERROR with the generic URI, the description as sole positional argument
\* and no keyword arguments.
ExpectedReply(r) ==
    IF r.result.variant = "Ok"
    THEN Payload("YIELD", r.id, "", r.result.args, r.result.kwargs)
    ELSE IF r.result.variant = "ApplicationError"
    THEN Payload("ERROR", r.id, r.result.uri,
                 IF r.result.args = None THEN Some(<<>>) ELSE r.result.args,
                 IF r.result.kwargs = None THEN Some({}) ELSE r.result.kwargs)
    ELSE Payload("ERROR", r.id, GenericErrorUri, Some(<<Debug(r.result)>>), Some({}))

\* C8: every invocation result handed to invoke_yield has put exactly one
\* frame on the transport, carrying the invocation's request id and mapped
\* from the result as above (checked where every request is an invocation
\* result, so the k-th send belongs to the k-th request).
C8_InvocationMapping ==
    /\ Len(wire) = Len(issued)
    /\ \A k \in 1 .. Len(issued) : wire[k].dir = "out" /\ wire[k].msg = ExpectedReply(issued[k])

\* ------------------------------------------------------------------ session claims

\* The operations that carry a request id.
RequestKinds == {"subscribe", "unsubscribe", "publish", "register", "unregister", "call"}

\* The correlation table of each operation kind.
OwnTable(kind) ==
    CASE kind = "subscribe" -> "pending_sub"
      [] kind = "call" -> "pending_call"
      [] kind = "register" -> "pending_register"
      [] kind \in {"publish", "unsubscribe", "unregister"} -> "pending_transactions"
      [] OTHER -> "none"

\* Every parked continuation: <<table, request id, index of its request>>.
Entries ==
    {<<"pending_sub", r, pending_sub[r]>> : r \in DOMAIN pending_sub}
    \cup {<<"pending_transactions", r, pending_transactions[r]>> : r \in DOMAIN pending_transactions}
    \cup {<<"pending_register", r, pending_register[r].res>> : r \in DOMAIN pending_register}
    \cup {<<"pending_call", r, pending_call[r]>> : r \in DOMAIN pending_call}

EntriesOf(i) == {e \in Entries : e[3] = i}

\* The successful sends performed for request i.
SentFor(i) == {j \in 1 .. Len(wire) : wire[j].req = i /\ wire[j].dir = "out" /\ wire[j].ok}

\* C1: a request whose send succeeded and that is still outstanding is parked
\* exactly once, in the table of its own operation kind, under the request id
\* carried by the frame sent for it (register together with its handler);
\* every parked entry is such a request; no two parked entries share a key.
C1_NoCrossWiring ==
    /\ \A i \in 1 .. Len(issued) : \A j \in SentFor(i) :
          (issued[i].kind \in RequestKinds /\ resolved[i] = <<>>)
              => EntriesOf(i) = {<<OwnTable(issued[i].kind), wire[j].msg.request, i>>}
    /\ \A e \in Entries :
          /\ e[3] \in 1 .. Len(issued)
          /\ issued[e[3]].kind \in RequestKinds
          /\ OwnTable(issued[e[3]].kind) = e[1]
          /\ \E j \in SentFor(e[3]) : wire[j].msg.request = e[2]
    /\ \A r \in DOMAIN pending_register :
          pending_register[r].func = issued[pending_register[r].res].handler
    /\ \A e1, e2 \in Entries : e1[2] = e2[2] => e1 = e2

\* Three requests of different kinds outstanding at once, each in its table.
C1_Witness ==
    /\ DOMAIN pending_sub # {}
    /\ DOMAIN pending_register # {}
    /\ DOMAIN pending_call # {}

\* C2: whenever no helper is suspended, every request that carries a
\* continuation has either been resolved with exactly one value and is parked
\* nowhere, or is unresolved and parked in exactly one table; after a failed
\* send the value is the transport error.
C2_AnsweredExactlyOnce ==
    \A i \in 1 .. Len(issued) :
        (issued[i].kind # "invocation_result" /\ ~(pc # "idle" /\ i = Current)) =>
            /\ \/ Len(resolved[i]) = 1 /\ EntriesOf(i) = {}
               \/ Len(resolved[i]) = 0 /\ Cardinality(EntriesOf(i)) = 1
            /\ (\E j \in 1 .. Len(wire) : wire[j].req = i /\ ~wire[j].ok)
                   => resolved[i] = <<TransportError>>

\* C3: a step that takes an unsubscribe (unregister) naming an id that is not
\* in the subscription (registration) table resolves its continuation with the
\* caller error and leaves the transport untouched.
C3_UnknownIdFailsLocally ==
    [][ (Len(issued') = Len(issued) + 1 /\
         \/ issued'[NewRes].kind = "unsubscribe" /\ issued'[NewRes].id \notin subscriptions
         \/ issued'[NewRes].kind = "unregister" /\ issued'[NewRes].id \notin DOMAIN rpc_endpoints)
        => (resolved'[NewRes] = <<CallerError>> /\ wire' = wire) ]_vars

\* An unsubscribe and an unregister both rejected for an unknown id while
\* another subscription is held.
C3_Witness ==
    /\ subscriptions # {}
    /\ \E i \in 1 .. Len(issued) :
          /\ issued[i].kind \in {"unsubscribe", "unregister"}
          /\ issued[i].id \notin subscriptions
          /\ resolved[i] = <<CallerError>>

\* C4: the session is invalid while leave is about to send GOODBYE, and from
\* the send of GOODBYE (successful or not) until a later WELCOME.
C4_LeaveInvalidates ==
    /\ pc = "leave_send" => ~valid_session
    /\ \A j \in 1 .. Len(wire) :
          ( /\ wire[j].dir = "out" /\ wire[j].msg.type = "GOODBYE"
            /\ ~\E k \in (j + 1) .. Len(wire) : wire[k].dir = "in" /\ wire[k].msg.type = "WELCOME" )
          => ~valid_session

\* A session that was established and whose GOODBYE failed on the transport.
C4_Witness ==
    \E j \in 1 .. Len(wire) :
        /\ wire[j].dir = "out" /\ wire[j].msg.type = "GOODBYE" /\ ~wire[j].ok
        /\ \E k \in 1 .. (j - 1) : wire[k].dir = "in" /\ wire[k].msg.type = "WELCOME"

\* C5: a CHALLENGE received by a join that has no challenge handler resolves
\* the join with the no-handler error; that join calls no handler, sends no
\* AUTHENTICATE and receives no WELCOME; the helper returned Shutdown; and the
\* session is valid only if an earlier join had made it so.
C5_ChallengeWithoutHandler ==
    \A j \in 1 .. Len(wire) :
        LET i == wire[j].req
        IN (wire[j].dir = "in" /\ wire[j].msg.type = "CHALLENGE" /\ issued[i].handler = "none") =>
              /\ resolved[i] = <<NoHandlerError>>
              /\ \A k \in 1 .. Len(wire) :
                    wire[k].req = i =>
                        wire[k].msg.type \notin {"AUTHENTICATE", "on_challenge_handler", "WELCOME"}
              /\ status = "Shutdown" /\ pc = "idle"
              /\ valid_session =>
                    \E i2 \in 1 .. (i - 1) : issued[i2].kind = "join" /\ resolved[i2] = <<OkValue>>

\* A join without handler that was sent a CHALLENGE, after other traffic.
C5_Witness ==
    \E j \in 2 .. Len(wire) :
        /\ wire[j].dir = "in" /\ wire[j].msg.type = "CHALLENGE"
        /\ issued[wire[j].req].handler = "none"
        /\ wire[j].req > 1

\* C6: a join that ended with a transport error returned Shutdown and left
\* the session invalid, whatever the session state was before.
C6_TransportFailureInvalidates ==
    \A i \in 1 .. Len(issued) :
        (issued[i].kind = "join" /\ resolved[i] = <<TransportError>>)
            => (status = "Shutdown" /\ ~valid_session)

HandlerCalls(i) ==
    Cardinality({j \in 1 .. Len(wire) : wire[j].req = i /\ wire[j].dir = "handler"})

Challenges(i) ==
    Cardinality({j \in 1 .. Len(wire) :
                    wire[j].req = i /\ wire[j].dir = "in" /\ wire[j].msg.type = "CHALLENGE"})

Authenticates(i) ==
    Cardinality({j \in 1 .. Len(wire) :
                    wire[j].req = i /\ wire[j].dir = "out" /\ wire[j].msg.type = "AUTHENTICATE"})

\* Every handler call directly follows a CHALLENGE of the same join, and
\* every AUTHENTICATE directly follows a handler call of the same join.
OnlyOnChallenge(i) ==
    \A j \in 1 .. Len(wire) :
        /\ (wire[j].req = i /\ wire[j].dir = "handler") =>
              /\ j > 1
              /\ wire[j - 1].req = i /\ wire[j - 1].dir = "in" /\ wire[j - 1].msg.type = "CHALLENGE"
        /\ (wire[j].req = i /\ wire[j].msg.type = "AUTHENTICATE") =>
              /\ j > 1
              /\ wire[j - 1].req = i /\ wire[j - 1].dir = "handler"

\* C7 as stated: a join calls the challenge handler at most once, only in
\* response to a CHALLENGE, and performs at most one CHALLENGE/AUTHENTICATE
\* round trip.
C7_AtMostOneChallengeRound ==
    \A i \in 1 .. Len(issued) :
        issued[i].kind = "join" =>
            /\ OnlyOnChallenge(i)
            /\ HandlerCalls(i) <= 1
            /\ Authenticates(i) <= 1

\* C7 amended: a join calls the challenge handler only in response to a
\* CHALLENGE, and once for every CHALLENGE it receives (never without a
\* configured handler); it sends at most one AUTHENTICATE per handler call.
C7_OncePerChallenge ==
    \A i \in 1 .. Len(issued) :
        issued[i].kind = "join" =>
            /\ OnlyOnChallenge(i)
            /\ HandlerCalls(i) = (IF issued[i].handler = "none" THEN 0 ELSE Challenges(i))
            /\ Authenticates(i) <= HandlerCalls(i)

\* A join that went through two CHALLENGE/AUTHENTICATE rounds and was welcomed.
C7_Witness ==
    \E i \in 1 .. Len(issued) :
        /\ issued[i].kind = "join"
        /\ HandlerCalls(i) = 2
        /\ Authenticates(i) = 2
        /\ resolved[i] = <<OkValue>>

\* ------------------------------------------------------------------ request ids and validity

RequestFrameTypes == {"SUBSCRIBE", "UNSUBSCRIBE", "PUBLISH", "REGISTER", "UNREGISTER", "CALL"}

\* Positions in wire of the frames that carry an allocated request id
\* (whether or not the send succeeded).
RequestFrames ==
    {j \in 1 .. Len(wire) : wire[j].dir = "out" /\ wire[j].msg.type \in RequestFrameTypes}

\* C11: the request ids allocated in a session start at 1 and strictly
\* increase in the order of allocation, also across a leave, and the counter
\* stays above every id allocated, also above one that was rolled back.
C11_IdsStrictlyIncrease ==
    \A j \in RequestFrames :
        /\ wire[j].msg.request >= 1
        /\ wire[j].msg.request < next_request
        /\ (\A k \in RequestFrames : k >= j) => wire[j].msg.request = 1
        /\ \A k \in RequestFrames : k < j => wire[k].msg.request < wire[j].msg.request

\* An id allocated, freed by its acknowledgment, a leave, and a further id
\* allocated after it.
C11_Witness ==
    \E g \in 1 .. Len(wire) :
        /\ wire[g].msg.type = "GOODBYE"
        /\ \E k \in RequestFrames : k < g /\ wire[k].msg.request \notin pending_requests
        /\ \E j \in RequestFrames : j > g /\ wire[j].msg.request = 2

\* Positions in wire of the transport failures (a failed send or receive).
TransportFailures == {j \in 1 .. Len(wire) : ~wire[j].ok}

\* C12: whenever the session is marked valid, the most recent join ended with
\* WELCOME, and since that WELCOME no leave was started and no operation ended
\* in a transport failure.
C12_ValidOnlyWhileEstablished ==
    valid_session =>
        \E w \in 1 .. Len(wire) :
            /\ wire[w].dir = "in" /\ wire[w].msg.type = "WELCOME"
            /\ \A i \in (wire[w].req + 1) .. Len(issued) :
                  /\ issued[i].kind # "leave"
                  /\ issued[i].kind = "join" => resolved[i] \in {<<>>, <<OkValue>>}
            /\ \A j \in TransportFailures : j < w

\* ------------------------------------------------------------------ unacknowledged publish

\* The engine with a broker that never acknowledges a publication: every
\* step of Next but the PUBLISHED acknowledgment of a parked publish.
NextUnacked ==
    /\ Next
    /\ \A request \in DOMAIN pending_transactions :
          issued[pending_transactions[request]].kind = "publish"
              => request \in DOMAIN pending_transactions'

\* The engine goes on with what it has started (a suspended helper, a frame
\* to dispatch); callers are free to send no further request.
SpecUnacked ==
    Init /\ [][NextUnacked]_vars /\ WF_vars(NextUnacked /\ issued' = issued)

\* A step that takes a publish allocates the next request id and, when the
\* send succeeds, parks the continuation in pending_transactions under it.
PublishParks ==
    (Len(issued') = Len(issued) + 1 /\ issued'[NewRes].kind = "publish") =>
        /\ next_request' = next_request + 1
        /\ wire'[Len(wire')].msg.type = "PUBLISH"
        /\ wire'[Len(wire')].msg.request = next_request
        /\ wire'[Len(wire')].ok =>
              /\ next_request \in DOMAIN pending_transactions'
              /\ pending_transactions'[next_request] = NewRes

\* C13: publish always allocates a request id and parks in the generic table
\* when the send succeeds, and with a broker that never acknowledges, the
\* parked continuation is eventually resolved with "no id" (as long as the
\* engine keeps running).
C13_PublishResolvesUnacked ==
    /\ [][PublishParks]_vars
    /\ \A i \in 1 .. MaxOps :
          (i <= Len(issued) /\ issued[i].kind = "publish" /\ SentFor(i) # {})
              ~> (status # "Ok" \/ (i <= Len(resolved) /\ resolved[i] = <<OkValue>>))

\* The part of C13 about allocation and parking alone.
C13_PublishParks == [][PublishParks]_vars

\* ------------------------------------------------------------------ send-failure rollback

\* The step sent a request-carrying frame and the transport refused it.
RequestSendFailed ==
    /\ Len(wire') = Len(wire) + 1
    /\ wire'[Len(wire')].dir = "out"
    /\ wire'[Len(wire')].msg.type \in RequestFrameTypes
    /\ ~wire'[Len(wire')].ok

\* C14: when the send of subscribe, unsubscribe, publish, register, unregister
\* or call fails, the allocated id is not in the pending-id set afterwards, the
\* pending-id set and the four correlation tables are what they were before
\* the call, no handler became invocable, and the helper returns Shutdown.
C14_SendFailureRollsBack ==
    [][RequestSendFailed =>
          /\ wire'[Len(wire')].msg.request = next_request
          /\ wire'[Len(wire')].msg.request \notin pending_requests'
          /\ pending_requests' = pending_requests
          /\ pending_sub' = pending_sub
          /\ pending_transactions' = pending_transactions
          /\ pending_register' = pending_register
          /\ pending_call' = pending_call
          /\ DOMAIN rpc_endpoints' \subseteq DOMAIN rpc_endpoints
          /\ status' = "Shutdown"]_vars

\* A REGISTER was refused by the transport while another request was parked.
C14_Witness ==
    /\ status = "Shutdown"
    /\ pending_requests # {}
    /\ \E j \in RequestFrames :
          /\ j = Len(wire)
          /\ ~wire[j].ok
          /\ wire[j].msg.type = "REGISTER"
          /\ wire[j].msg.request \notin pending_requests
          /\ wire[j].msg.request \notin DOMAIN pending_register

\* ------------------------------------------------------------------ eager local removal

\* The step takes a request of the given kind.
Takes(kind) == Len(issued') = Len(issued) + 1 /\ issued'[NewRes].kind = kind

\* What a step taking unsubscribe/unregister of `id` does, `held` telling
\* whether the id was in the local table before the step and `held_after`
\* whether it is there after it.
EagerRemoval(type, id, held, held_after) ==
    /\ ~held_after
    /\ IF held
       THEN /\ Len(wire') = Len(wire) + 1
            /\ wire'[Len(wire')].dir = "out"
            /\ wire'[Len(wire')].msg.type = type
            /\ wire'[Len(wire')].msg.id = id
            /\ resolved'[NewRes] = IF wire'[Len(wire')].ok THEN <<>> ELSE <<TransportError>>
       ELSE /\ wire' = wire
            /\ resolved'[NewRes] = <<CallerError>>

RejectsUnknownId ==
    \/ Takes("unsubscribe") /\ issued'[NewRes].id \notin subscriptions
    \/ Takes("unregister") /\ issued'[NewRes].id \notin DOMAIN rpc_endpoints

\* C16: an unsubscribe/unregister rejected for an unknown id allocates no
\* request id and leaves the valid flag, the pending-id set, the subscription
\* and registration tables and the four correlation tables as they were; the
\* helper returns Ok, so the engine goes on taking requests.
C16_CallerErrorLeavesSession ==
    [][RejectsUnknownId =>
          /\ next_request' = next_request
          /\ valid_session' = valid_session
          /\ pending_requests' = pending_requests
          /\ subscriptions' = subscriptions
          /\ rpc_endpoints' = rpc_endpoints
          /\ pending_sub' = pending_sub
          /\ pending_transactions' = pending_transactions
          /\ pending_register' = pending_register
          /\ pending_call' = pending_call
          /\ status' = "Ok"
          /\ pc' = "idle"]_vars

\* After an unsubscribe was rejected for an unknown id while a request was
\* parked, a later request was sent under the next request id.
C16_Witness ==
    \E i, k \in 1 .. Len(issued) :
        /\ i < k
        /\ issued[i].kind = "unsubscribe"
        /\ resolved[i] = <<CallerError>>
        /\ \E h \in 1 .. (i - 1) : SentFor(h) # {} /\ issued[h].kind \in RequestKinds
        /\ \E j \in SentFor(k) : wire[j].msg.request = 2

\* ------------------------------------------------------------------ register

\* The handlers held by the register-table and by the registration table.
ParkedHandlers == {pending_register[request].func : request \in DOMAIN pending_register}
InvocableHandlers == {rpc_endpoints[rpc_id] : rpc_id \in DOMAIN rpc_endpoints}

\* C17: the register helper leaves the registration table unchanged on every
\* path; a successful send parks the handler with its continuation in the
\* register-table under the request id, a failed send leaves it in no table;
\* the registration table gets an entry only in a step that takes a parked
\* register out of the register-table (its REGISTERED) and the entry holds
\* that register's handler.
C17_RegisterNotInvocable ==
    [][/\ Takes("register") =>
             /\ rpc_endpoints' = rpc_endpoints
             /\ Len(wire') = Len(wire) + 1
             /\ wire'[Len(wire')].msg.type = "REGISTER"
             /\ IF wire'[Len(wire')].ok
                THEN pending_register' =
                         Insert(pending_register, wire'[Len(wire')].msg.request,
                                [func |-> issued'[NewRes].handler, res |-> NewRes])
                ELSE pending_register' = pending_register
       /\ \A rpc_id \in DOMAIN rpc_endpoints' :
             (rpc_id \notin DOMAIN rpc_endpoints \/ rpc_endpoints[rpc_id] # rpc_endpoints'[rpc_id]) =>
                 \E request \in DOMAIN pending_register :
                     /\ request \notin DOMAIN pending_register'
                     /\ pending_register[request].func = rpc_endpoints'[rpc_id]
                     /\ resolved'[pending_register[request].res] = <<OkValue>>
      ]_vars

\* One handler is parked with its register awaiting REGISTERED, the register
\* of another failed to send: neither is invocable, the second is in no table.
C17_Witness ==
    /\ InvocableHandlers = {}
    /\ ParkedHandlers = {"f"}
    /\ \E k \in 1 .. Len(issued) :
          /\ issued[k].kind = "register"
          /\ issued[k].handler = "g"
          /\ resolved[k] = <<TransportError>>

\* ------------------------------------------------------------------ handshake

\* What the transport and the challenge handler saw for request i, in order.
LogOf(i) == SelectSeq(wire, LAMBDA e : e.req = i)

IsIn(e, type) == e.dir = "in" /\ e.ok /\ e.msg.type = type

\* The CHALLENGE at position p of the log was answered: the handler was
\* called and AUTHENTICATE was sent.
Answered(log, p) ==
    /\ p + 2 <= Len(log)
    /\ log[p + 1].dir = "handler"
    /\ log[p + 2].dir = "out" /\ log[p + 2].msg.type = "AUTHENTICATE" /\ log[p + 2].ok

\* The log is HELLO, answered CHALLENGE rounds, WELCOME.
Welcomed(log) ==
    /\ Len(log) >= 2
    /\ IsIn(log[Len(log)], "WELCOME")
    /\ \A p \in 2 .. (Len(log) - 1) :
          \/ IsIn(log[p], "CHALLENGE") /\ Answered(log, p)
          \/ log[p].dir = "handler" /\ IsIn(log[p - 1], "CHALLENGE")
          \/ log[p].msg.type = "AUTHENTICATE" /\ log[p - 1].dir = "handler"

\* C18: a join sends HELLO before it receives anything; it resolves with
\* success exactly when WELCOME was received after HELLO with only answered
\* CHALLENGEs in between, and the session is marked valid exactly by such a
\* join (until a leave); a frame that is neither WELCOME nor CHALLENGE is the
\* last event of the join, which ends with an error and Shutdown;
\* AUTHENTICATE is sent only in reply to a CHALLENGE.
C18_HandshakeAcceptance ==
    /\ \A i \in 1 .. Len(issued) :
          issued[i].kind = "join" =>
              LET log == LogOf(i)
              IN /\ Len(log) >= 1
                 /\ log[1].dir = "out" /\ log[1].msg.type = "HELLO"
                 /\ \A p \in 2 .. Len(log) : log[p].msg.type # "HELLO"
                 /\ (resolved[i] = <<OkValue>>) <=> Welcomed(log)
                 /\ \A p \in 1 .. Len(log) :
                       /\ IsIn(log[p], "WELCOME") => p = Len(log)
                       /\ (log[p].dir = "in" /\ log[p].ok
                              /\ log[p].msg.type \notin {"WELCOME", "CHALLENGE"}) =>
                             /\ p = Len(log)
                             /\ resolved[i] = <<UnexpectedFrame>>
                             /\ status = "Shutdown"
                             /\ i = Len(issued)
                       /\ log[p].msg.type = "AUTHENTICATE" =>
                             /\ p >= 3
                             /\ log[p - 1].dir = "handler"
                             /\ IsIn(log[p - 2], "CHALLENGE")
    /\ valid_session <=>
          \E i \in 1 .. Len(issued) :
              /\ issued[i].kind = "join"
              /\ Welcomed(LogOf(i))
              /\ \A k \in (i + 1) .. Len(issued) : issued[k].kind # "leave"

\* A join was welcomed after an answered CHALLENGE; a later join was sent a
\* frame that is neither WELCOME nor CHALLENGE.
C18_Witness ==
    \E i, k \in 1 .. Len(issued) :
        /\ i < k
        /\ issued[i].kind = "join" /\ issued[k].kind = "join"
        /\ Len(LogOf(i)) = 5 /\ Welcomed(LogOf(i))
        /\ resolved[k] = <<UnexpectedFrame>>
        /\ valid_session

\* ------------------------------------------------------------------ leave

KeySets == <<DOMAIN pending_sub, DOMAIN pending_transactions,
             DOMAIN pending_register, DOMAIN pending_call>>

\* C20: the key sets of the subscribe-table, the generic-ack-table, the
\* register-table and the call-table are pairwise disjoint and every key is
\* in the pending-id set: a request id has at most one live continuation.
C20_TablesConsistent ==
    /\ \A a, b \in 1 .. 4 : a # b => KeySets[a] \cap KeySets[b] = {}
    /\ \A a \in 1 .. 4 : KeySets[a] \subseteq pending_requests
    /\ \A request \in pending_requests : request < next_request

\* Two different tables hold a continuation each and a third helper's send
\* failed and was rolled back.
C20_Witness ==
    /\ Cardinality({a \in 1 .. 4 : KeySets[a] # {}}) = 2
    /\ Cardinality(pending_requests) = 2
    /\ Len(wire) >= 3
    /\ ~wire[Len(wire)].ok
    /\ wire[Len(wire)].msg.type \in RequestFrameTypes

====
